---- MODULE Spec2Model ----
(***************************************************************************)
(* s3multipart: a command-line wrapper around S3 multi-part uploads.       *)
(*                                                                         *)
(* The model follows src/s3multipart/cli.py.  The state is the state file  *)
(* multipart.json, the position and local variables of the one running     *)
(* command, and the remote calls that command has made.  Every command is  *)
(* broken into the steps between which the process can be terminated, so   *)
(* that the state file is observed at every crash point.                   *)
(***************************************************************************)
EXTENDS Integers, Sequences, FiniteSets, Bags, TLC

VARIABLES
    file,         \* multipart.json: absent, empty, partially written or a JSON object
    pc,           \* position of the running command, "exit" between commands
    cmd,          \* the command of the current (or last) invocation
    bucket,       \* argument / local variable bucket
    key,          \* argument / local variable key
    src,          \* argument of upload: the source path
    data,         \* local variable data (the loaded JSON object)
    parts,        \* local variable parts (the sorted list of part files)
    idx,          \* position of the for loop over parts (1-based)
    etag,         \* local variable etag
    resp,         \* HTTP status of the last abort/complete response, 0 if none
    calls,        \* remote calls made by the current invocation, in order
    nextId,       \* next UploadId the storage service will issue
    runs,         \* number of invocations so far
    exitCode,     \* exit status of the last invocation
    err,          \* the reason the last invocation ended, "" while running or on success
    killedAt,     \* where the last invocation was terminated, "" if it was not
    fileAtStart,  \* the state file as it was when the invocation started
    required,     \* part numbers resolved by the confirmed uploads of the current record
    status,       \* lifecycle of the session: NONE, ACTIVE, FINALIZED or ABORTED
    uploaded      \* successful upload_part calls so far, as a bag of <<UploadId, PartNumber>>

vars == <<file, pc, cmd, bucket, key, src, data, parts, idx, etag, resp, calls,
          nextId, runs, exitCode, err, killedAt, fileAtStart, required,
          status, uploaded>>

----
(* Bounds of the model *)

MaxRuns == 3

MaxFiles == 2

----
(* Program constants *)

HttpOk == 200

HttpNoContent == 204

StatusCodes == {HttpOk, HttpNoContent, 500}

Buckets == {"bucket1", "bucket2"}

Keys == {"obj.bin"}

----
(* File names are sequences of characters; Alphabet lists the characters   *)
(* used, in code point order, so that names compare as Python strings do.  *)

Alphabet == <<"\"", ".", "0", "1", "2", "a", "b", "p", "t">>

Digits == {"0", "1", "2"}

Ord(c) == CHOOSE i \in 1..Len(Alphabet) : Alphabet[i] = c

DigitVal(c) == CASE c = "0" -> 0 [] c = "1" -> 1 [] c = "2" -> 2

\* str.__lt__ : lexicographic comparison by code point
RECURSIVE StrLess(_, _)
StrLess(a, b) ==
    IF b = <<>> THEN FALSE
    ELSE IF a = <<>> THEN TRUE
    ELSE IF Head(a) # Head(b) THEN Ord(Head(a)) < Ord(Head(b))
    ELSE StrLess(Tail(a), Tail(b))

\* sorted(...) of a set of distinct paths of one folder
RECURSIVE Sorted(_)
Sorted(S) ==
    IF S = {} THEN <<>>
    ELSE LET m == CHOOSE x \in S : \A y \in S \ {x} : StrLess(x, y)
         IN  <<m>> \o Sorted(S \ {m})

\* str.rfind('.') as a 1-based position, 0 if there is no dot
RFindDot(name) ==
    LET ds == {i \in 1..Len(name) : name[i] = "."}
    IN  IF ds = {} THEN 0 ELSE CHOOSE i \in ds : \A j \in ds : j <= i

\* pathlib's PurePath.suffix
Suffix(name) ==
    LET i == RFindDot(name)
    IN  IF 1 < i /\ i < Len(name) THEN SubSeq(name, i, Len(name)) ELSE <<>>

\* re.match(r'\.[0-9]+', s) : anchored at the start only
Matches(s) == Len(s) >= 2 /\ s[1] = "." /\ s[2] \in Digits

\* int(s) raises ValueError unless s is a decimal numeral
IsInt(s) == Len(s) > 0 /\ \A i \in 1..Len(s) : s[i] \in Digits

RECURSIVE ParseInt(_)
ParseInt(s) ==
    IF s = <<>> THEN 0
    ELSE 10 * ParseInt(SubSeq(s, 1, Len(s) - 1)) + DigitVal(s[Len(s)])

\* part.suffix[1:]
Ext(name) == Tail(Suffix(name))

\* the list comprehension of upload: the entries with a numeric suffix, sorted
ResolveParts(entries) == Sorted({f \in entries : Matches(Suffix(f))})

PartNumberOf(name) == ParseInt(Ext(name))

----
(* The folders an upload may be pointed at *)

Names == {
    <<"p", ".", "0", "1">>,
    <<"p", ".", "0", "2">>,
    <<"p", ".", "1">>,
    <<"p", ".", "2">>,
    <<"p", ".", "1", "0">>,
    <<"a", ".", "0", "2">>,
    <<"b", ".", "0", "1">>,
    <<"p", ".", "1", "a">>,
    <<"p", ".", "t">>,
    <<"p">> }

NotADir == [isDir |-> FALSE, entries |-> {}]

Sources ==
    {NotADir} \cup
    {[isDir |-> TRUE, entries |-> S] : S \in {T \in SUBSET Names : Cardinality(T) <= MaxFiles}}

----
(* The state file *)

NoData == [Bucket |-> "", Key |-> "", UploadId |-> 0, SSE |-> "",
           HasParts |-> FALSE, Parts |-> <<>>]

NoFile == [kind |-> "none", json |-> NoData]

EmptyFile == [kind |-> "empty", json |-> NoData]

PartialFile == [kind |-> "partial", json |-> NoData]

JsonFile(d) == [kind |-> "json", json |-> d]

\* MULTIPART_FILENAME.exists()
Exists(f) == f.kind # "none"

\* json.load succeeds only on a completely written object
Loadable(f) == f.kind = "json"

\* init storing its two arguments under each other's name
CreateResponse_SwapsArgs(b, k, id) ==
    [Bucket |-> k, Key |-> b, UploadId |-> id, SSE |-> "AES256",
     HasParts |-> FALSE, Parts |-> <<>>]

\* the response of create_multipart_upload, stored wholesale by init
CreateResponse(b, k, id) ==
    [Bucket |-> b, Key |-> k, UploadId |-> id, SSE |-> "AES256",
     HasParts |-> FALSE, Parts |-> <<>>]

\* the ETag header of an upload_part response: the quoted digest of the body
Digest(name) == <<"e">> \o Ext(name)

RespETag(name) == <<"\"">> \o Digest(name) \o <<"\"">>

\* resp['ETag'][1:-1]
StripQuotes(s) == SubSeq(s, 2, Len(s) - 1)

\* the record rebuilt from the fields upload knows, the others dropped
AppendPart_Strips(d, e, n) ==
    [Bucket |-> d.Bucket, Key |-> d.Key, UploadId |-> d.UploadId, SSE |-> "",
     HasParts |-> TRUE,
     Parts |-> (IF d.HasParts THEN d.Parts ELSE <<>>) \o
               <<[ETag |-> e, PartNumber |-> n]>>]

\* data['Parts'] = [{...}] : the new entry replaces the list
AppendPart_Replace(d, e, n) ==
    [d EXCEPT !.HasParts = TRUE, !.Parts = <<[ETag |-> e, PartNumber |-> n]>>]

\* data.get('Parts', []) + [{'ETag': etag, 'PartNumber': part_number}]
AppendPart(d, e, n) ==
    [d EXCEPT !.HasParts = TRUE,
              !.Parts = (IF d.HasParts THEN d.Parts ELSE <<>>) \o
                        <<[ETag |-> e, PartNumber |-> n]>>]

Call(op, d, n, ps, ok, st) ==
    [op |-> op, Bucket |-> d.Bucket, Key |-> d.Key, UploadId |-> d.UploadId,
     PartNumber |-> n, Parts |-> ps, ok |-> ok, status |-> st]

----
Init ==
    /\ file = NoFile
    /\ pc = "exit"
    /\ cmd = "none"
    /\ bucket = ""
    /\ key = ""
    /\ src = NotADir
    /\ data = NoData
    /\ parts = <<>>
    /\ idx = 0
    /\ etag = <<>>
    /\ resp = 0
    /\ calls = <<>>
    /\ nextId = 1
    /\ runs = 0
    /\ exitCode = 0
    /\ err = ""
    /\ killedAt = ""
    /\ fileAtStart = NoFile
    /\ required = {}
    /\ status = "NONE"
    /\ uploaded = EmptyBag

\* sys.exit(code), or an uncaught exception (code 1)
Exit(code, e) ==
    /\ pc' = "exit"
    /\ exitCode' = code
    /\ err' = e
    /\ killedAt' = ""

\* a fresh process: no locals, no calls yet
Start(c, first) ==
    /\ pc = "exit"
    /\ runs < MaxRuns
    /\ runs' = runs + 1
    /\ cmd' = c
    /\ pc' = first
    /\ data' = NoData
    /\ parts' = <<>>
    /\ idx' = 0
    /\ etag' = <<>>
    /\ resp' = 0
    /\ calls' = <<>>
    /\ exitCode' = 0
    /\ err' = ""
    /\ killedAt' = ""
    /\ fileAtStart' = file
    /\ UNCHANGED <<file, nextId, required, status, uploaded>>

----
(* init *)

InvokeInit ==
    /\ \E b \in Buckets, k \in Keys : bucket' = b /\ key' = k
    /\ Start("init", "init_create")
    /\ UNCHANGED src

\* init opening the state file for writing before it calls the service
InitCreateFails_OpensFirst ==
    /\ pc = "init_create"
    /\ file' = EmptyFile
    /\ calls' = Append(calls, Call("create", CreateResponse(bucket, key, 0), 0, <<>>, FALSE, 0))
    /\ Exit(1, "RemoteError")
    /\ UNCHANGED <<cmd, bucket, key, src, data, parts, idx, etag, resp,
                   nextId, runs, fileAtStart, required>>
    /\ UNCHANGED <<status, uploaded>>

\* session.create_multipart_upload(...) raises
InitCreateFails ==
    /\ pc = "init_create"
    /\ calls' = Append(calls, Call("create", CreateResponse(bucket, key, 0), 0, <<>>, FALSE, 0))
    /\ Exit(1, "RemoteError")
    /\ UNCHANGED <<file, cmd, bucket, key, src, data, parts, idx, etag, resp,
                   nextId, runs, fileAtStart, required>>
    /\ UNCHANGED <<status, uploaded>>

\* mpupload = session.create_multipart_upload(...)
InitCreate ==
    /\ pc = "init_create"
    /\ data' = CreateResponse(bucket, key, nextId)
    /\ nextId' = nextId + 1
    /\ calls' = Append(calls, Call("create", CreateResponse(bucket, key, nextId), 0, <<>>, TRUE, HttpOk))
    /\ pc' = "init_open"
    /\ UNCHANGED <<file, cmd, bucket, key, src, parts, idx, etag, resp,
                   runs, exitCode, err, killedAt, fileAtStart, required>>
    /\ UNCHANGED <<status, uploaded>>

\* MULTIPART_FILENAME.open('w') truncates whatever is there
InitOpen ==
    /\ pc = "init_open"
    /\ file' = EmptyFile
    /\ required' = {}
    /\ pc' = "init_write"
    /\ UNCHANGED <<cmd, bucket, key, src, data, parts, idx, etag, resp, calls,
                   nextId, runs, exitCode, err, killedAt, fileAtStart>>
    /\ status' = "ACTIVE"
    /\ UNCHANGED uploaded

\* fp.write(json.dumps(mpupload)), the file is closed, the command returns
InitWrite ==
    /\ pc = "init_write"
    /\ file' = JsonFile(data)
    /\ Exit(0, "")
    /\ UNCHANGED <<cmd, bucket, key, src, data, parts, idx, etag, resp, calls,
                   nextId, runs, fileAtStart, required>>
    /\ UNCHANGED <<status, uploaded>>

----
(* check_multipart, the guard of upload, abort and finalize *)

InvokeUpload ==
    /\ \E s \in Sources : src' = s
    /\ Start("upload", "check")
    /\ UNCHANGED <<bucket, key>>

InvokeAbort ==
    /\ Start("abort", "check")
    /\ UNCHANGED <<bucket, key, src>>

InvokeFinalize ==
    /\ Start("finalize", "check")
    /\ UNCHANGED <<bucket, key, src>>

\* the guard testing for the state file by opening it for appending
CheckFails_Touches ==
    /\ pc = "check"
    /\ ~Exists(file)
    /\ file' = EmptyFile
    /\ Exit(1, "NoActiveSession")
    /\ UNCHANGED <<cmd, bucket, key, src, data, parts, idx, etag, resp, calls,
                   nextId, runs, fileAtStart, required>>
    /\ UNCHANGED <<status, uploaded>>

\* if not MULTIPART_FILENAME.exists(): error(...)
CheckFails ==
    /\ pc = "check"
    /\ ~Exists(file)
    /\ Exit(1, "NoActiveSession")
    /\ UNCHANGED <<file, cmd, bucket, key, src, data, parts, idx, etag, resp, calls,
                   nextId, runs, fileAtStart, required>>
    /\ UNCHANGED <<status, uploaded>>

\* the wrapper calling func without looking at the state file
CheckPasses_NoGuard ==
    /\ pc = "check"
    /\ pc' = "load"
    /\ UNCHANGED <<file, cmd, bucket, key, src, data, parts, idx, etag, resp, calls,
                   nextId, runs, exitCode, err, killedAt, fileAtStart, required>>
    /\ UNCHANGED <<status, uploaded>>

\* func(*args, **kwargs)
CheckPasses ==
    /\ pc = "check"
    /\ Exists(file)
    /\ pc' = "load"
    /\ UNCHANGED <<file, cmd, bucket, key, src, data, parts, idx, etag, resp, calls,
                   nextId, runs, exitCode, err, killedAt, fileAtStart, required>>
    /\ UNCHANGED <<status, uploaded>>

\* json.load(fp) raises on a file that is not one complete JSON object
LoadFails ==
    /\ pc = "load"
    /\ ~Loadable(file)
    /\ Exit(1, "JSONDecodeError")
    /\ UNCHANGED <<file, cmd, bucket, key, src, data, parts, idx, etag, resp, calls,
                   nextId, runs, fileAtStart, required>>
    /\ UNCHANGED <<status, uploaded>>

\* data = json.load(fp); bucket, key, upload_id are read from it
Load(next) ==
    /\ pc = "load"
    /\ Loadable(file)
    /\ data' = file.json
    /\ bucket' = file.json.Bucket
    /\ key' = file.json.Key
    /\ pc' = next
    /\ UNCHANGED <<file, cmd, src, parts, idx, etag, resp, calls,
                   nextId, runs, exitCode, err, killedAt, fileAtStart, required>>
    /\ UNCHANGED <<status, uploaded>>

----
(* upload *)

UploadLoad == cmd = "upload" /\ Load("resolve")

\* if not pathlib.Path(src).is_dir(): error(...)
UploadNotADir ==
    /\ pc = "resolve"
    /\ ~src.isDir
    /\ Exit(1, "NotADirectory")
    /\ UNCHANGED <<file, cmd, bucket, key, src, data, parts, idx, etag, resp, calls,
                   nextId, runs, fileAtStart, required>>
    /\ UNCHANGED <<status, uploaded>>

\* if not parts: error(...)
UploadNoParts ==
    /\ pc = "resolve"
    /\ src.isDir
    /\ ResolveParts(src.entries) = <<>>
    /\ Exit(1, "NoPartsFound")
    /\ UNCHANGED <<file, cmd, bucket, key, src, data, parts, idx, etag, resp, calls,
                   nextId, runs, fileAtStart, required>>
    /\ UNCHANGED <<status, uploaded>>

\* parts = sorted([...]); the list is echoed
UploadResolve ==
    /\ pc = "resolve"
    /\ src.isDir
    /\ ResolveParts(src.entries) # <<>>
    /\ parts' = ResolveParts(src.entries)
    /\ pc' = "confirm"
    /\ UNCHANGED <<file, cmd, bucket, key, src, data, idx, etag, resp, calls,
                   nextId, runs, exitCode, err, killedAt, fileAtStart, required>>
    /\ UNCHANGED <<status, uploaded>>

\* upload initialising the list of parts in the record before it asks
UploadDeclined_ResetsParts ==
    /\ pc = "confirm"
    /\ file' = JsonFile([data EXCEPT !.HasParts = TRUE, !.Parts = <<>>])
    /\ Exit(0, "Declined")
    /\ UNCHANGED <<cmd, bucket, key, src, data, parts, idx, etag, resp, calls,
                   nextId, runs, fileAtStart, required>>
    /\ UNCHANGED <<status, uploaded>>

\* proceed = click.confirm('Proceed?'); if not proceed: sys.exit(0)
UploadDeclined ==
    /\ pc = "confirm"
    /\ Exit(0, "Declined")
    /\ UNCHANGED <<file, cmd, bucket, key, src, data, parts, idx, etag, resp, calls,
                   nextId, runs, fileAtStart, required>>
    /\ UNCHANGED <<status, uploaded>>

UploadConfirmed ==
    /\ pc = "confirm"
    /\ idx' = 1
    /\ required' = required \cup {PartNumberOf(parts[i]) : i \in {j \in 1..Len(parts) : IsInt(Ext(parts[j]))}}
    /\ pc' = "part"
    /\ UNCHANGED <<file, cmd, bucket, key, src, data, parts, etag, resp, calls,
                   nextId, runs, exitCode, err, killedAt, fileAtStart>>
    /\ UNCHANGED <<status, uploaded>>

\* part_number = int(part.suffix[1:]) raises ValueError
UploadBadNumber ==
    /\ pc = "part"
    /\ idx <= Len(parts)
    /\ ~IsInt(Ext(parts[idx]))
    /\ Exit(1, "ValueError")
    /\ UNCHANGED <<file, cmd, bucket, key, src, data, parts, idx, etag, resp, calls,
                   nextId, runs, fileAtStart, required>>
    /\ UNCHANGED <<status, uploaded>>

\* upload swallowing the exception and going on with the next part
UploadPartFails_Continues ==
    /\ pc = "part"
    /\ idx <= Len(parts)
    /\ IsInt(Ext(parts[idx]))
    /\ calls' = Append(calls, Call("upload_part", data, PartNumberOf(parts[idx]), <<>>, FALSE, 0))
    /\ idx' = idx + 1
    /\ UNCHANGED <<file, pc, cmd, bucket, key, src, data, parts, etag, resp,
                   nextId, runs, exitCode, err, killedAt, fileAtStart, required>>
    /\ UNCHANGED <<status, uploaded>>

\* session.upload_part(...) raises
UploadPartFails ==
    /\ pc = "part"
    /\ idx <= Len(parts)
    /\ IsInt(Ext(parts[idx]))
    /\ calls' = Append(calls, Call("upload_part", data, PartNumberOf(parts[idx]), <<>>, FALSE, 0))
    /\ Exit(1, "RemoteError")
    /\ UNCHANGED <<file, cmd, bucket, key, src, data, parts, idx, etag, resp,
                   nextId, runs, fileAtStart, required>>
    /\ UNCHANGED <<status, uploaded>>

\* upload skipping the parts whose number is already in the record
UploadPart_SkipsRecorded ==
    /\ pc = "part"
    /\ idx <= Len(parts)
    /\ IsInt(Ext(parts[idx]))
    /\ IF \E i \in 1..Len(file.json.Parts) :
              file.json.Parts[i].PartNumber = PartNumberOf(parts[idx])
       THEN /\ idx' = idx + 1
            /\ UNCHANGED <<pc, calls, etag, uploaded>>
       ELSE /\ calls' = Append(calls, Call("upload_part", data, PartNumberOf(parts[idx]), <<>>, TRUE, HttpOk))
            /\ etag' = StripQuotes(RespETag(parts[idx]))
            /\ pc' = "reload"
            /\ uploaded' = uploaded (+) SetToBag({<<data.UploadId, PartNumberOf(parts[idx])>>})
            /\ UNCHANGED idx
    /\ UNCHANGED <<file, cmd, bucket, key, src, data, parts, resp,
                   nextId, runs, exitCode, err, killedAt, fileAtStart, required>>
    /\ UNCHANGED status

\* upload numbering the parts by their position in the list
UploadPart_TagIndex ==
    /\ pc = "part"
    /\ idx <= Len(parts)
    /\ IsInt(Ext(parts[idx]))
    /\ calls' = Append(calls, Call("upload_part", data, idx, <<>>, TRUE, HttpOk))
    /\ etag' = StripQuotes(RespETag(parts[idx]))
    /\ pc' = "reload"
    /\ UNCHANGED <<file, cmd, bucket, key, src, data, parts, idx, resp,
                   nextId, runs, exitCode, err, killedAt, fileAtStart, required>>
    /\ uploaded' = uploaded (+) SetToBag({<<data.UploadId, idx>>})
    /\ UNCHANGED status

\* resp = session.upload_part(...); etag = resp['ETag'][1:-1]
UploadPart ==
    /\ pc = "part"
    /\ idx <= Len(parts)
    /\ IsInt(Ext(parts[idx]))
    /\ calls' = Append(calls, Call("upload_part", data, PartNumberOf(parts[idx]), <<>>, TRUE, HttpOk))
    /\ etag' = StripQuotes(RespETag(parts[idx]))
    /\ pc' = "reload"
    /\ UNCHANGED <<file, cmd, bucket, key, src, data, parts, idx, resp,
                   nextId, runs, exitCode, err, killedAt, fileAtStart, required>>
    /\ uploaded' = uploaded (+) SetToBag({<<data.UploadId, PartNumberOf(parts[idx])>>})
    /\ UNCHANGED status

\* data = json.load(fp); data['Parts'] = data.get('Parts', []) + [...]
UploadReload ==
    /\ pc = "reload"
    /\ Loadable(file)
    /\ data' = AppendPart(file.json, etag, PartNumberOf(parts[idx]))
    /\ pc' = "openw"
    /\ UNCHANGED <<file, cmd, bucket, key, src, parts, idx, etag, resp, calls,
                   nextId, runs, exitCode, err, killedAt, fileAtStart, required>>
    /\ UNCHANGED <<status, uploaded>>

\* MULTIPART_FILENAME.open('w') truncates the record
UploadOpenW ==
    /\ pc = "openw"
    /\ file' = EmptyFile
    /\ pc' = "dump"
    /\ UNCHANGED <<cmd, bucket, key, src, data, parts, idx, etag, resp, calls,
                   nextId, runs, exitCode, err, killedAt, fileAtStart, required>>
    /\ UNCHANGED <<status, uploaded>>

\* json.dump writes in chunks: a large record reaches the disk in pieces
UploadDumpChunk ==
    /\ pc = "dump"
    /\ file = EmptyFile
    /\ file' = PartialFile
    /\ UNCHANGED <<pc, cmd, bucket, key, src, data, parts, idx, etag, resp, calls,
                   nextId, runs, exitCode, err, killedAt, fileAtStart, required>>
    /\ UNCHANGED <<status, uploaded>>

\* json.dump(data, fp), the file is closed, the loop moves to the next part
UploadDump ==
    /\ pc = "dump"
    /\ file' = JsonFile(data)
    /\ idx' = idx + 1
    /\ pc' = "part"
    /\ UNCHANGED <<cmd, bucket, key, src, data, parts, etag, resp, calls,
                   nextId, runs, exitCode, err, killedAt, fileAtStart, required>>
    /\ UNCHANGED <<status, uploaded>>

\* the loop is exhausted, the command returns
UploadDone ==
    /\ pc = "part"
    /\ idx > Len(parts)
    /\ Exit(0, "")
    /\ UNCHANGED <<file, cmd, bucket, key, src, data, parts, idx, etag, resp, calls,
                   nextId, runs, fileAtStart, required>>
    /\ UNCHANGED <<status, uploaded>>

----
(* abort *)

AbortLoad == cmd = "abort" /\ Load("abort_call")

\* session.abort_multipart_upload(...) raises
AbortCallFails ==
    /\ pc = "abort_call"
    /\ calls' = Append(calls, Call("abort", data, 0, <<>>, FALSE, 0))
    /\ Exit(1, "RemoteError")
    /\ UNCHANGED <<file, cmd, bucket, key, src, data, parts, idx, etag, resp,
                   nextId, runs, fileAtStart, required>>
    /\ UNCHANGED <<status, uploaded>>

\* resp = session.abort_multipart_upload(Bucket=..., Key=..., UploadId=...)
AbortCall ==
    /\ pc = "abort_call"
    /\ \E st \in StatusCodes :
        /\ resp' = st
        /\ calls' = Append(calls, Call("abort", data, 0, <<>>, TRUE, st))
    /\ pc' = "abort_resp"
    /\ UNCHANGED <<file, cmd, bucket, key, src, data, parts, idx, etag,
                   nextId, runs, exitCode, err, killedAt, fileAtStart, required>>
    /\ UNCHANGED <<status, uploaded>>

\* abort testing for 200 where the service answers 204
AbortConfirmed_On200 ==
    /\ pc = "abort_resp"
    /\ resp = HttpOk
    /\ file' = NoFile
    /\ required' = {}
    /\ Exit(0, "")
    /\ UNCHANGED <<cmd, bucket, key, src, data, parts, idx, etag, resp, calls,
                   nextId, runs, fileAtStart>>
    /\ status' = "ABORTED"
    /\ UNCHANGED uploaded

\* if resp[...] == 204: os.remove(MULTIPART_FILENAME)
AbortConfirmed ==
    /\ pc = "abort_resp"
    /\ resp = HttpNoContent
    /\ file' = NoFile
    /\ required' = {}
    /\ Exit(0, "")
    /\ UNCHANGED <<cmd, bucket, key, src, data, parts, idx, etag, resp, calls,
                   nextId, runs, fileAtStart>>
    /\ status' = "ABORTED"
    /\ UNCHANGED uploaded

\* else: 'Bad HTTP response' is echoed and the command returns
AbortRejected ==
    /\ pc = "abort_resp"
    /\ resp # HttpNoContent
    /\ Exit(0, "BadHTTPResponse")
    /\ UNCHANGED <<file, cmd, bucket, key, src, data, parts, idx, etag, resp, calls,
                   nextId, runs, fileAtStart, required>>
    /\ UNCHANGED <<status, uploaded>>

----
(* finalize *)

\* mpu = {'Parts': data['Parts']} raises KeyError when no part was recorded
FinalizeNoParts ==
    /\ cmd = "finalize"
    /\ pc = "load"
    /\ Loadable(file)
    /\ ~file.json.HasParts
    /\ Exit(1, "KeyError")
    /\ UNCHANGED <<file, cmd, bucket, key, src, data, parts, idx, etag, resp, calls,
                   nextId, runs, fileAtStart, required>>
    /\ UNCHANGED <<status, uploaded>>

FinalizeLoad == cmd = "finalize" /\ file.json.HasParts /\ Load("complete_call")

\* session.complete_multipart_upload(...) raises
FinalizeCallFails ==
    /\ pc = "complete_call"
    /\ calls' = Append(calls, Call("complete", data, 0, data.Parts, FALSE, 0))
    /\ Exit(1, "RemoteError")
    /\ UNCHANGED <<file, cmd, bucket, key, src, data, parts, idx, etag, resp,
                   nextId, runs, fileAtStart, required>>
    /\ UNCHANGED <<status, uploaded>>

\* resp = session.complete_multipart_upload(..., MultipartUpload=mpu)
FinalizeCall ==
    /\ pc = "complete_call"
    /\ \E st \in StatusCodes :
        /\ resp' = st
        /\ calls' = Append(calls, Call("complete", data, 0, data.Parts, TRUE, st))
    /\ pc' = "complete_resp"
    /\ UNCHANGED <<file, cmd, bucket, key, src, data, parts, idx, etag,
                   nextId, runs, exitCode, err, killedAt, fileAtStart, required>>
    /\ UNCHANGED <<status, uploaded>>

\* if resp[...] == 200: os.remove(MULTIPART_FILENAME)
FinalizeConfirmed ==
    /\ pc = "complete_resp"
    /\ resp = HttpOk
    /\ file' = NoFile
    /\ required' = {}
    /\ Exit(0, "")
    /\ UNCHANGED <<cmd, bucket, key, src, data, parts, idx, etag, resp, calls,
                   nextId, runs, fileAtStart>>
    /\ status' = "FINALIZED"
    /\ UNCHANGED uploaded

\* finalize without the status test: the record is removed whatever the response
FinalizeRejected_Removes ==
    /\ pc = "complete_resp"
    /\ resp # HttpOk
    /\ file' = NoFile
    /\ Exit(0, "")
    /\ UNCHANGED <<cmd, bucket, key, src, data, parts, idx, etag, resp, calls,
                   nextId, runs, fileAtStart, required>>
    /\ UNCHANGED <<status, uploaded>>

\* else: 'Bad HTTP response' is echoed and the command returns
FinalizeRejected ==
    /\ pc = "complete_resp"
    /\ resp # HttpOk
    /\ Exit(0, "BadHTTPResponse")
    /\ UNCHANGED <<file, cmd, bucket, key, src, data, parts, idx, etag, resp, calls,
                   nextId, runs, fileAtStart, required>>
    /\ UNCHANGED <<status, uploaded>>

----
\* the process is terminated (signal, power loss) wherever it is
Kill ==
    /\ pc # "exit"
    /\ killedAt' = pc
    /\ pc' = "exit"
    /\ exitCode' = 1
    /\ err' = "Killed"
    /\ UNCHANGED <<file, cmd, bucket, key, src, data, parts, idx, etag, resp, calls,
                   nextId, runs, fileAtStart, required>>
    /\ UNCHANGED <<status, uploaded>>

Next ==
    \/ InvokeInit \/ InitCreateFails \/ InitCreate \/ InitOpen \/ InitWrite
    \/ InvokeUpload \/ InvokeAbort \/ InvokeFinalize
    \/ CheckFails \/ CheckPasses \/ LoadFails
    \/ UploadLoad \/ UploadNotADir \/ UploadNoParts \/ UploadResolve
    \/ UploadDeclined \/ UploadConfirmed
    \/ UploadBadNumber \/ UploadPartFails \/ UploadPart
    \/ UploadReload \/ UploadOpenW \/ UploadDumpChunk \/ UploadDump \/ UploadDone
    \/ AbortLoad \/ AbortCallFails \/ AbortCall \/ AbortConfirmed \/ AbortRejected
    \/ FinalizeNoParts \/ FinalizeLoad \/ FinalizeCallFails \/ FinalizeCall
    \/ FinalizeConfirmed \/ FinalizeRejected
    \/ Kill

Spec == Init /\ [][Next]_vars

TypeOK ==
    /\ file.kind \in {"none", "empty", "partial", "json"}
    /\ runs \in 0..MaxRuns
    /\ exitCode \in {0, 1}

----
(* Properties *)

\* the entries an upload records for the first n parts of its list, in order
RECURSIVE Entries(_, _)
Entries(ps, n) ==
    IF n = 0 THEN <<>>
    ELSE Append(Entries(ps, n - 1),
                [ETag |-> Digest(ps[n]), PartNumber |-> PartNumberOf(ps[n])])

StartParts == fileAtStart.json.Parts

PartNumbersIn(ps) == {ps[i].PartNumber : i \in 1..Len(ps)}

SameIdentity(d, e) ==
    d.Bucket = e.Bucket /\ d.Key = e.Key /\ d.UploadId = e.UploadId

\* C1: once the service has answered a finalize, the record is gone when the
\* command ends if the status was 200, and with any other status the record is
\* still there, loadable and equal to what it was when the command started.
C1_FinalizeDeletesOnConfirmOnly ==
    (cmd = "finalize" /\ resp # 0) =>
        /\ Loadable(fileAtStart)
        /\ (pc = "exit" /\ killedAt = "" /\ resp = HttpOk) => file = NoFile
        /\ resp # HttpOk => file = fileAtStart

C1_Witness ==
    /\ cmd = "finalize" /\ pc = "exit" /\ killedAt = ""
    /\ resp = HttpOk /\ file = NoFile /\ Len(fileAtStart.json.Parts) = 2

\* C2: an abort on an existing record makes exactly one remote call, the abort
\* of the stored bucket, key and upload id; the record is removed only after a
\* 204 answer, and after any other answer it is what it was at the start.
C2_AbortDeletesOnConfirmOnly ==
    (cmd = "abort" /\ Exists(fileAtStart)) =>
        /\ file # fileAtStart => (file = NoFile /\ resp = HttpNoContent /\ pc = "exit")
        /\ (pc = "exit" /\ killedAt = "" /\ resp = HttpNoContent) => file = NoFile
        /\ resp # 0 =>
            /\ Len(calls) = 1
            /\ calls[1].op = "abort"
            /\ SameIdentity(calls[1], fileAtStart.json)
        /\ resp = 0 => \A i \in 1..Len(calls) : ~calls[i].ok

C2_Witness ==
    /\ cmd = "abort" /\ pc = "exit" /\ killedAt = ""
    /\ resp = HttpOk /\ file = fileAtStart /\ Loadable(file)
    /\ Len(calls) = 1

\* C3: with no state file, upload, abort and finalize stop in the guard with
\* exit status 1, make no remote call and do not create the state file.
C3_NoSessionNoEffect ==
    (cmd \in {"upload", "abort", "finalize"} /\ fileAtStart = NoFile) =>
        /\ calls = <<>>
        /\ file = NoFile
        /\ pc \in {"check", "exit"}
        /\ (pc = "exit" /\ killedAt = "") => (exitCode = 1 /\ err = "NoActiveSession")

C3_Witness ==
    /\ cmd = "finalize" /\ fileAtStart = NoFile /\ pc = "exit"
    /\ err = "NoActiveSession" /\ runs = MaxRuns

\* C4 as stated: a process terminated between the append of part k (k >= 1)
\* and the transfer of part k+1 leaves a loadable record of exactly k parts.
C4_ExactlyKParts ==
    (cmd = "upload" /\ killedAt = "part" /\ idx > 1) =>
        (Loadable(file) /\ Len(file.json.Parts) = idx - 1)

\* C4 amended: a process terminated between the append of part k and the
\* transfer of part k+1 leaves a loadable record whose parts are those it held
\* when the upload started followed by the entries of the first k parts.
C4_KPartsAppended ==
    (cmd = "upload" /\ killedAt = "part") =>
        /\ Loadable(file)
        /\ SameIdentity(file.json, fileAtStart.json)
        /\ file.json.Parts = StartParts \o Entries(parts, idx - 1)

C4_Witness ==
    /\ cmd = "upload" /\ killedAt = "part" /\ idx = 2 /\ Len(parts) = 2
    /\ Len(file.json.Parts) = 3

\* C5: the state file is never readable in a state that is neither the old nor
\* the new record: whenever it exists it holds one complete JSON object.
C5_SaveIsAtomic == Exists(file) => Loadable(file)

\* C6: bucket, key and upload id of the record do not change while it exists:
\* whenever a command started on a loadable record and a loadable record is
\* there now, the two name the same bucket, key and upload id.
C6_IdentityImmutable ==
    (Loadable(fileAtStart) /\ Loadable(file)) => SameIdentity(file.json, fileAtStart.json)

\* C7: an init whose create call raises leaves the state file as it was, and
\* every loadable record carries an upload id the service has issued.
C7_FailedInitWritesNothing ==
    /\ (cmd = "init" /\ pc = "init_create") => file = fileAtStart
    /\ (cmd = "init" /\ err = "RemoteError") => (file = fileAtStart /\ pc = "exit")
    /\ Loadable(file) => file.json.UploadId \in 1..(nextId - 1)

C7_Witness ==
    /\ cmd = "init" /\ err = "RemoteError" /\ pc = "exit"
    /\ Loadable(fileAtStart) /\ file = fileAtStart
    /\ Len(calls) = 1 /\ ~calls[1].ok

\* C8: no part number occurs twice in the parts of the record.
C8_PartNumbersUnique ==
    Loadable(file) =>
        \A i, j \in 1..Len(file.json.Parts) :
            i # j => file.json.Parts[i].PartNumber # file.json.Parts[j].PartNumber

\* C9: every complete call submits parts covering all part numbers that the
\* confirmed uploads of this record resolved.
C9_FinalizeCoversAll ==
    \A i \in 1..Len(calls) :
        calls[i].op = "complete" => required \subseteq PartNumbersIn(calls[i].Parts)

\* C10: during an upload the i-th remote call is the upload_part of the i-th
\* resolved part under the stored upload id and with that part's number, only
\* the last call can have failed, a call is made only when the entries of all
\* earlier parts are in the record, and the record holds the parts it started
\* with followed by one entry per completed part in the resolved order.
C10_SequentialInOrder ==
    (cmd = "upload" /\ pc \in {"part", "reload", "openw", "dump"}) =>
        /\ Len(calls) = (IF pc = "part" THEN idx - 1 ELSE idx)
        /\ \A i \in 1..Len(calls) :
            /\ calls[i].op = "upload_part"
            /\ calls[i].ok
            /\ calls[i].PartNumber = PartNumberOf(parts[i])
            /\ SameIdentity(calls[i], fileAtStart.json)
        /\ Loadable(file) =>
            file.json.Parts = StartParts \o
                Entries(parts, IF pc = "part" THEN Len(calls) ELSE Len(calls) - 1)
        /\ pc \in {"part", "reload", "openw"} => Loadable(file)

C10_Witness ==
    /\ cmd = "upload" /\ pc = "part" /\ idx = 3 /\ Len(calls) = 2
    /\ parts = << <<"p", ".", "0", "1">>, <<"p", ".", "0", "2">> >>
    /\ file.json.Parts = Entries(parts, 2)
    /\ calls[1].PartNumber = 1 /\ calls[2].PartNumber = 2

\* C11: an upload that ends on a failed transfer has made no call after the
\* failed one, only its last call has failed, and it leaves a loadable record
\* holding the parts it started with followed by the entries of the parts
\* before the failed one, with no entry for the failed part.
C11_FailureStopsAndKeepsProgress ==
    /\ cmd = "upload" => \A i \in 1..(Len(calls) - 1) : calls[i].ok
    /\ (cmd = "upload" /\ err = "RemoteError") =>
        /\ pc = "exit"
        /\ Len(calls) = idx
        /\ ~calls[idx].ok
        /\ calls[idx].PartNumber = PartNumberOf(parts[idx])
        /\ Loadable(file)
        /\ file.json.Parts = StartParts \o Entries(parts, idx - 1)

C11_Witness ==
    /\ cmd = "upload" /\ err = "RemoteError" /\ idx = 2 /\ Len(parts) = 2
    /\ Len(calls) = 2 /\ calls[1].ok /\ ~calls[2].ok
    /\ Len(file.json.Parts) = 1

\* C12: up to and including the confirmation prompt an upload makes no remote
\* call and leaves the state file as it found it; so does an upload that ends
\* because the path is no folder, holds no part or the operator declined.
C12_NoEffectBeforeConfirm ==
    (cmd = "upload" /\ (pc \in {"check", "load", "resolve", "confirm"}
                        \/ err \in {"NotADirectory", "NoPartsFound", "Declined"})) =>
        (calls = <<>> /\ file = fileAtStart)

C12_Witness ==
    /\ cmd = "upload" /\ pc = "exit" /\ err = "Declined"
    /\ Len(parts) = 2 /\ calls = <<>> /\ Len(file.json.Parts) = 2

\* C13: an abort or finalize that the service answered with a status other
\* than the confirming one ends with a non-zero exit status.
C13_RejectedExitsNonZero ==
    (/\ pc = "exit" /\ killedAt = "" /\ resp # 0
     /\ \/ cmd = "abort" /\ resp # HttpNoContent
        \/ cmd = "finalize" /\ resp # HttpOk) => exitCode # 0

C15_FinalizeCallsComplete ==
    (cmd = "finalize" /\ Loadable(fileAtStart) /\ pc = "exit" /\ killedAt = "") =>
        /\ Len(calls) = 1
        /\ calls[1].op = "complete"
        /\ calls[1].Parts = fileAtStart.json.Parts

\* a folder whose numeric extensions all have the same length
ConsistentPadding(entries) ==
    \A f, g \in {h \in entries : Suffix(h) # <<>> /\ IsInt(Ext(h))} :
        Len(Ext(f)) = Len(Ext(g))

\* C16: for a folder with consistent zero-padding the resolved list holds
\* exactly the entries whose extension is a dot followed only by digits, and
\* their part numbers ascend along the list.
C16_ResolverNumericOrder ==
    (cmd = "upload" /\ pc = "confirm" /\ ConsistentPadding(src.entries)) =>
        /\ {parts[i] : i \in 1..Len(parts)} =
               {f \in src.entries : Suffix(f) # <<>> /\ IsInt(Ext(f))}
        /\ \A i, j \in 1..Len(parts) :
               i < j => PartNumberOf(parts[i]) < PartNumberOf(parts[j])

\* C17: during and after an upload every field of the record other than the
\* list of parts is what it was when the upload started.
C17_AppendKeepsOtherFields ==
    (cmd = "upload" /\ Loadable(file)) =>
        /\ Loadable(fileAtStart)
        /\ [file.json EXCEPT !.HasParts = FALSE, !.Parts = <<>>] =
           [fileAtStart.json EXCEPT !.HasParts = FALSE, !.Parts = <<>>]

C17_Witness ==
    /\ cmd = "upload" /\ pc = "exit" /\ err = ""
    /\ Len(file.json.Parts) = 2 /\ StartParts = <<>>
    /\ file.json.SSE = "AES256" /\ file.json.Bucket = "bucket2"

\* C18: while the session is finalized or aborted no step makes a state file
\* exist except init opening it after a successful create call.
C18_TerminalStaysTerminal ==
    [][(status \in {"FINALIZED", "ABORTED"} /\ Exists(file'))
           => (cmd = "init" /\ pc = "init_open" /\ Len(calls) = 1 /\ calls[1].ok)]_vars

C18_Witness ==
    /\ status = "ABORTED" /\ cmd = "upload" /\ pc = "exit"
    /\ err = "NoActiveSession" /\ file = NoFile

\* C19: an upload that ran to its end has made one successful upload_part call
\* per resolved part, recorded before or not, and every resolved part number
\* has an entry in the record.
C19_RerunUploadsEveryPart ==
    (cmd = "upload" /\ pc = "exit" /\ err = "") =>
        /\ Len(calls) = Len(parts)
        /\ \A i \in 1..Len(parts) :
            /\ calls[i].ok
            /\ calls[i].PartNumber = PartNumberOf(parts[i])
            /\ PartNumberOf(parts[i]) \in PartNumbersIn(file.json.Parts)
        /\ Len(file.json.Parts) = Len(StartParts) + Len(parts)

C19_Witness ==
    /\ cmd = "upload" /\ pc = "exit" /\ err = ""
    /\ Len(StartParts) = 1 /\ Len(parts) = 2
    /\ StartParts[1].PartNumber = PartNumberOf(parts[1])
    /\ Len(calls) = 2

\* the successful upload_part calls of the current invocation
OkCalls == {i \in 1..Len(calls) : calls[i].op = "upload_part" /\ calls[i].ok}

EntriesWith(ps, n) == {i \in 1..Len(ps) : ps[i].PartNumber = n}

\* C20: at every point of an upload, crash points included, the record is
\* loadable, it holds no more entries of a part number than upload_part calls
\* of that number have succeeded under its upload id, and the entries added
\* by this upload number as many as its successful calls or one less.
C20_EntriesMatchCalls ==
    (cmd = "upload" /\ Loadable(fileAtStart)) =>
        /\ Loadable(file)
        /\ \A n \in PartNumbersIn(file.json.Parts) :
               Cardinality(EntriesWith(file.json.Parts, n))
                   <= CopiesIn(<<file.json.UploadId, n>>, uploaded)
        /\ Len(file.json.Parts) - Len(StartParts)
               \in {Cardinality(OkCalls), Cardinality(OkCalls) - 1}

\* C20 without the crash points inside a save: wherever the record is loadable
\* the entries are accounted for by successful calls.
C20_LoadableEntriesMatchCalls ==
    (cmd = "upload" /\ Loadable(file)) =>
        /\ \A n \in PartNumbersIn(file.json.Parts) :
               Cardinality(EntriesWith(file.json.Parts, n))
                   <= CopiesIn(<<file.json.UploadId, n>>, uploaded)
        /\ Len(file.json.Parts) - Len(StartParts)
               \in {Cardinality(OkCalls), Cardinality(OkCalls) - 1}

====
